---- MODULE Spec2Model ----
(***************************************************************************)
(* Cloud Instance Manager: a terminal menu over the EC2 API.               *)
(*   src/src/config.py         credential resolution from the environment  *)
(*   src/src/aws_client.py     construction of the EC2 client              *)
(*   src/src/instances_cli.py  the six command handlers and the extraction *)
(*   src/src/main.py           the menu loop                               *)
(*                                                                         *)
(* Text typed by the user is a sequence of one-character strings, so that  *)
(* str.strip() and str.lower() are computed.  Values that the program only *)
(* passes along (environment values, fields of an API response) are plain  *)
(* strings.  Python's None is the string None below.                       *)
(***************************************************************************)
EXTENDS Integers, Sequences, FiniteSets, TLC

VARIABLES
    environ,        \* os.environ once load_dotenv() has run (a dict)
    credResult,     \* outcome of a direct call of get_aws_credentials()
    response,       \* a describe_instances response handed to the extraction
    extracted,      \* outcome of _extract_instances_from_response(response)
    pc,             \* position of the process
    out,            \* everything printed so far, one entry per print
    exc,            \* the exception in flight, None when there is none
    exitCode,       \* exit status of the process, -1 while it runs
    ec2_client,     \* main's ec2_client: <<>> while unbound, <<handle>> once made
    sdkCalls,       \* every boto3.client("ec2", ...) call: its keyword arguments
                    \* and what came of it
    credCalls,      \* number of get_aws_credentials() calls made at startup
    calls,          \* remote API calls issued by the current handler invocation
    handler,        \* the handler invoked last, None before the first
    passed_client,  \* the ec2_client argument that handler was called with
    invocations,    \* number of handler invocations so far
    reads,          \* number of input() calls so far
    lastInput,      \* the line the last input() returned, as typed
    instance_id,    \* handler local
    ami_id,         \* handler local
    instance_type,  \* handler local
    confirmation,   \* handler local (terminate_instance): <<>> while unbound,
                    \* <<text>> once assigned
    state_filter    \* list_instances parameter: <<>> for None, <<text>> otherwise

vars == <<environ, credResult, response, extracted, pc, out, exc, exitCode,
          ec2_client, sdkCalls, credCalls, calls, handler, passed_client,
          invocations, reads, lastInput, instance_id, ami_id, instance_type,
          confirmation, state_filter>>

None == "None"

----------------------------------------------------------------------------
(* Bounds *)

\* input() calls in one run of the process
MaxReads == 4
\* instances in one reservation of a response
MaxInst == 2
\* reservations in one response
MaxRes == 2

----------------------------------------------------------------------------
(* str.strip() and str.lower() on typed text *)

Whitespace == {" ", "\t"}

RECURSIVE LStrip(_)
LStrip(s) ==
    IF s = <<>> THEN <<>>
    ELSE IF Head(s) \in Whitespace THEN LStrip(Tail(s)) ELSE s

RECURSIVE RStrip(_)
RStrip(s) ==
    IF s = <<>> THEN <<>>
    ELSE IF s[Len(s)] \in Whitespace THEN RStrip(SubSeq(s, 1, Len(s) - 1)) ELSE s

Strip(s) == RStrip(LStrip(s))

LowerChar(c) ==
    CASE c = "Y" -> "y"
      [] c = "E" -> "e"
      [] c = "S" -> "s"
      [] c = "N" -> "n"
      [] c = "O" -> "o"
      [] c = "R" -> "r"
      [] c = "U" -> "u"
      [] c = "I" -> "i"
      [] c = "G" -> "g"
      [] OTHER -> c

Lower(s) == [i \in DOMAIN s |-> LowerChar(s[i])]

\* one printed line: the fixed text and the values formatted into it
Msg(text, args) == [text |-> text, args |-> args]

----------------------------------------------------------------------------
(* src/src/config.py *)

EnvVars == {"AWS_ACCESS_KEY_ID", "AWS_SECRET_ACCESS_KEY", "AWS_SESSION_TOKEN",
            "AWS_DEFAULT_REGION"}

\* os.getenv(key, default): the value when the key is set, the default otherwise
Getenv(env, key, default) == IF key \in DOMAIN env THEN env[key] ELSE default

\* truth value of a str-or-None
Truthy(v) == v # None /\ v # ""

get_aws_region(env) == Getenv(env, "AWS_DEFAULT_REGION", "us-east-1")

Raised(kind, detail) == [ok |-> FALSE, exc |-> kind, detail |-> detail]
Returned(v) == [ok |-> TRUE, value |-> v]

CredentialsBase(access_key, secret_key, env) ==
    [k \in {"aws_access_key_id", "aws_secret_access_key", "region_name"} |->
        CASE k = "aws_access_key_id" -> access_key
          [] k = "aws_secret_access_key" -> secret_key
          [] OTHER -> get_aws_region(env)]

\* credentials["aws_session_token"] = session_token
WithSessionToken(credentials, session_token) ==
    [k \in DOMAIN credentials \cup {"aws_session_token"} |->
        IF k = "aws_session_token" THEN session_token ELSE credentials[k]]

\* get_aws_credentials with "and" for "or" in the check of the two keys
get_aws_credentials_BothMissing(env) ==
    LET access_key == Getenv(env, "AWS_ACCESS_KEY_ID", None)
        secret_key == Getenv(env, "AWS_SECRET_ACCESS_KEY", None)
        session_token == Getenv(env, "AWS_SESSION_TOKEN", None)
        credentials == CredentialsBase(access_key, secret_key, env)
    IN  IF ~Truthy(access_key) /\ ~Truthy(secret_key)
        THEN Raised("ValueError", "AWS credentials not found.")
        ELSE IF Truthy(session_token)
             THEN Returned(WithSessionToken(credentials, session_token))
             ELSE Returned(credentials)

\* get_aws_credentials with "if session_token is not None" for "if session_token"
get_aws_credentials_TokenNotNone(env) ==
    LET access_key == Getenv(env, "AWS_ACCESS_KEY_ID", None)
        secret_key == Getenv(env, "AWS_SECRET_ACCESS_KEY", None)
        session_token == Getenv(env, "AWS_SESSION_TOKEN", None)
        credentials == CredentialsBase(access_key, secret_key, env)
    IN  IF ~Truthy(access_key) \/ ~Truthy(secret_key)
        THEN Raised("ValueError", "AWS credentials not found.")
        ELSE IF session_token # None
             THEN Returned(WithSessionToken(credentials, session_token))
             ELSE Returned(credentials)

get_aws_credentials(env) ==
    LET access_key == Getenv(env, "AWS_ACCESS_KEY_ID", None)
        secret_key == Getenv(env, "AWS_SECRET_ACCESS_KEY", None)
        session_token == Getenv(env, "AWS_SESSION_TOKEN", None)
        credentials == CredentialsBase(access_key, secret_key, env)
    IN  IF ~Truthy(access_key) \/ ~Truthy(secret_key)
        THEN Raised("ValueError", "AWS credentials not found.")
        ELSE IF Truthy(session_token)
             THEN Returned(WithSessionToken(credentials, session_token))
             ELSE Returned(credentials)

----------------------------------------------------------------------------
(* Exception classes: the except clauses match by class, subclasses included *)

BaseClasses(kind) ==
    CASE kind = "NoCredentialsError" -> {"NoCredentialsError", "BotoCoreError", "Exception"}
      [] kind = "BotoCoreError" -> {"BotoCoreError", "Exception"}
      [] kind = "ClientError" -> {"ClientError", "Exception"}
      [] kind = "ValueError" -> {"ValueError", "Exception"}
      [] kind = "EOFError" -> {"EOFError", "Exception"}
      [] kind = "TypeError" -> {"TypeError", "Exception"}
      [] kind = "KeyError" -> {"KeyError", "Exception"}
      [] kind = "KeyboardInterrupt" -> {"KeyboardInterrupt"}
      [] kind = "SystemExit" -> {"SystemExit"}
      [] OTHER -> {}

IsInstance(kind, class) == class \in BaseClasses(kind)

\* the exception in flight: its class and, for SystemExit, its code
Exc(kind, code) == [kind |-> kind, code |-> code]
NoExc == Exc(None, -1)

----------------------------------------------------------------------------
(* src/src/aws_client.py *)

\* what boto3.client("ec2", **credentials) can do
SdkOutcomes == {"ok", "NoCredentialsError", "BotoCoreError"}

boto3_client(credentials, sdk) ==
    IF sdk = "ok"
    THEN Returned([service |-> "ec2", kwargs |-> credentials])
    ELSE Raised(sdk, sdk)

\* the except clauses with the general one written before the specific one
StartupExceptClauses_GeneralFirst == <<"ValueError", "BotoCoreError", "NoCredentialsError">>

\* the except clauses of create_ec2_client in the order they are written
StartupExceptClauses == <<"ValueError", "NoCredentialsError", "BotoCoreError">>

\* index of the first except clause that matches, 0 when none does
FirstMatch(clauses, kind) ==
    IF \E i \in DOMAIN clauses : IsInstance(kind, clauses[i])
    THEN CHOOSE i \in DOMAIN clauses :
            /\ IsInstance(kind, clauses[i])
            /\ \A j \in 1..(i - 1) : ~IsInstance(kind, clauses[j])
    ELSE 0

StartupMessage(clause, detail) ==
    CASE clause = "ValueError" -> Msg("Configuration error: {exc}", <<detail>>)
      [] clause = "NoCredentialsError" ->
            Msg("AWS credentials not found. Please run 'aws configure' or set environment variables.", <<>>)
      [] clause = "BotoCoreError" ->
            Msg("Unexpected error while creating EC2 client: {exc}", <<detail>>)

\* a factory that constructs the client before it looks at the credentials
create_ec2_client_ConstructsFirst(env, sdk) ==
    LET credentials == get_aws_credentials(env)
        made == IF credentials.ok THEN boto3_client(credentials.value, sdk)
                ELSE credentials
        constructed == <<[kwargs |-> IF credentials.ok THEN credentials.value
                                     ELSE [k \in {} |-> None],
                          outcome |-> sdk]>>
        clause == IF made.ok THEN 0 ELSE FirstMatch(StartupExceptClauses, made.exc)
    IN  IF made.ok
        THEN [value |-> <<made.value>>, exc |-> NoExc, printed |-> <<>>,
              sdkCalls |-> constructed, credCalls |-> 1]
        ELSE IF clause # 0
        THEN [value |-> <<>>, exc |-> Exc("SystemExit", 1),
              printed |-> <<StartupMessage(StartupExceptClauses[clause], made.detail)>>,
              sdkCalls |-> constructed, credCalls |-> 1]
        ELSE [value |-> <<>>, exc |-> Exc(made.exc, -1), printed |-> <<>>,
              sdkCalls |-> constructed, credCalls |-> 1]

create_ec2_client(env, sdk) ==
    LET credentials == get_aws_credentials(env)
        made == IF credentials.ok THEN boto3_client(credentials.value, sdk)
                ELSE credentials
        constructed == IF credentials.ok
                       THEN <<[kwargs |-> credentials.value, outcome |-> sdk]>>
                       ELSE <<>>
        clause == IF made.ok THEN 0 ELSE FirstMatch(StartupExceptClauses, made.exc)
    IN  IF made.ok
        THEN [value |-> <<made.value>>, exc |-> NoExc, printed |-> <<>>,
              sdkCalls |-> constructed, credCalls |-> 1]
        ELSE IF clause # 0
        THEN [value |-> <<>>, exc |-> Exc("SystemExit", 1),
              printed |-> <<StartupMessage(StartupExceptClauses[clause], made.detail)>>,
              sdkCalls |-> constructed, credCalls |-> 1]
        ELSE [value |-> <<>>, exc |-> Exc(made.exc, -1), printed |-> <<>>,
              sdkCalls |-> constructed, credCalls |-> 1]

----------------------------------------------------------------------------
(* src/src/instances_cli.py: _extract_instances_from_response              *)
(*                                                                         *)
(* jmespath.search("Reservations[].Instances[].{id: InstanceId, state:     *)
(* State.Name, type: InstanceType, az: Placement.AvailabilityZone}", r).   *)
(* A dict is a function on its keys; JMESPath's null is Null.  A           *)
(* projection drops the elements whose right-hand side evaluates to null.  *)

Null == [null |-> TRUE]
Val(v) == [null |-> FALSE, val |-> v]

\* the identifier expression k on a dict d
Field(d, k) == IF k \in DOMAIN d THEN Val(d[k]) ELSE Null

\* the sub-expression a.b on a dict d
SubField(d, a, b) == IF Field(d, a).null THEN Null ELSE Field(Field(d, a).val, b)

\* a null leaf comes back to Python as None
Leaf(j) == IF j.null THEN None ELSE j.val

RECURSIVE Flatten_Reversed(_)
\* a flatten that merges the lists last to first
Flatten_Reversed(lists) ==
    IF lists = <<>> THEN <<>> ELSE Flatten_Reversed(Tail(lists)) \o Head(lists)

RECURSIVE Flatten(_)
\* the flatten operator [] on a list of lists: one level is merged, in order
Flatten(lists) ==
    IF lists = <<>> THEN <<>> ELSE Head(lists) \o Flatten(Tail(lists))

RECURSIVE ProjectField(_, _)
\* the projection  list[].k : the k of every element, nulls dropped
ProjectField(list, k) ==
    IF list = <<>> THEN <<>>
    ELSE LET h == Field(Head(list), k)
         IN  (IF h.null THEN <<>> ELSE <<h.val>>) \o ProjectField(Tail(list), k)

\* the multi-select hash {id: ..., state: ..., type: ..., az: ...} on one instance
MultiSelectHash(inst) ==
    [id |-> Leaf(Field(inst, "InstanceId")),
     state |-> Leaf(SubField(inst, "State", "Name")),
     type |-> Leaf(Field(inst, "InstanceType")),
     az |-> Leaf(SubField(inst, "Placement", "AvailabilityZone"))]

\* the expression with the hash applied to each reservation's first instance:
\* "Reservations[].{id: Instances[0].InstanceId, ...}"
JmespathSearch_PerReservation(resp) ==
    LET reservations == Field(resp, "Reservations")
        First(r) == IF Field(r, "Instances").null \/ Field(r, "Instances").val = <<>>
                    THEN [k \in {} |-> None]
                    ELSE Field(r, "Instances").val[1]
    IN  IF reservations.null THEN Null
        ELSE Val([i \in DOMAIN reservations.val |->
                    MultiSelectHash(First(reservations.val[i]))])

JmespathSearch(resp) ==
    LET reservations == Field(resp, "Reservations")
    IN  IF reservations.null THEN Null
        ELSE LET instances == Flatten(ProjectField(reservations.val, "Instances"))
             IN  Val([i \in DOMAIN instances |-> MultiSelectHash(instances[i])])

extract_instances_from_response(resp) ==
    LET instances == JmespathSearch(resp)
    IN  IF instances.null THEN <<>>
        ELSE IF instances.val = <<>> THEN <<>> ELSE instances.val

----------------------------------------------------------------------------
(* Inputs *)

SeqsUpTo(S, n) == UNION {[1..k -> S] : k \in 0..n}

EnvValues == {"", "A", "B"}

\* every environment over the four variables: each absent, empty or set
AllEnvs == UNION {[D -> EnvValues] : D \in SUBSET EnvVars}

\* a complete instance record, and one without State.Name and Placement
InstanceSet ==
    { [InstanceId |-> "i-1", State |-> [Name |-> "running"],
       InstanceType |-> "t2.micro", Placement |-> [AvailabilityZone |-> "us-east-1a"]],
      [InstanceId |-> "i-3", State |-> [Code |-> "16"], InstanceType |-> "t3.micro"] }

ReservationSet ==
    {[ReservationId |-> "r-1"]} \cup
    {[ReservationId |-> "r-1", Instances |-> is] : is \in SeqsUpTo(InstanceSet, MaxInst)}

Responses ==
    {[ResponseMetadata |-> "200"]} \cup
    {[ResponseMetadata |-> "200", Reservations |-> rs] :
        rs \in SeqsUpTo(ReservationSet, MaxRes)}

----------------------------------------------------------------------------
(* Initial state *)

InitProcess ==
    /\ credResult = <<>>
    /\ extracted = <<>>
    /\ pc = "start"
    /\ out = <<>>
    /\ exc = NoExc
    /\ exitCode = -1
    /\ ec2_client = <<>>
    /\ sdkCalls = <<>>
    /\ credCalls = 0
    /\ calls = <<>>
    /\ handler = None
    /\ passed_client = <<>>
    /\ invocations = 0
    /\ reads = 0
    /\ lastInput = <<>>
    /\ instance_id = <<>>
    /\ ami_id = <<>>
    /\ instance_type = <<>>
    /\ confirmation = <<>>
    /\ state_filter = <<>>

----------------------------------------------------------------------------
(* Startup: main() calls create_ec2_client() *)

CreateEc2Client ==
    /\ pc = "start"
    /\ \E sdk \in SdkOutcomes :
         LET r == create_ec2_client(environ, sdk)
         IN  /\ ec2_client' = r.value
             /\ exc' = r.exc
             /\ out' = out \o r.printed
             /\ sdkCalls' = sdkCalls \o r.sdkCalls
             /\ credCalls' = credCalls + r.credCalls
             /\ pc' = IF r.exc = NoExc THEN "menu" ELSE "startup_raised"
    /\ UNCHANGED <<environ, credResult, response, extracted, exitCode, calls,
                   handler, passed_client, invocations, reads, lastInput, instance_id, ami_id,
                   instance_type, confirmation, state_filter>>

----------------------------------------------------------------------------
(* The credential resolver and the client factory on every environment *)

GetAwsCredentials ==
    /\ pc = "start"
    /\ credResult = <<>>
    /\ credResult' = <<get_aws_credentials(environ)>>
    /\ UNCHANGED <<environ, response, extracted, pc, out, exc, exitCode,
                   ec2_client, sdkCalls, credCalls, calls, handler, passed_client, invocations,
                   reads, lastInput, instance_id, ami_id, instance_type,
                   confirmation, state_filter>>

InitCfg ==
    /\ environ \in AllEnvs
    /\ response = <<>>
    /\ InitProcess

NextCfg == GetAwsCredentials \/ CreateEc2Client

SpecCfg == InitCfg /\ [][NextCfg]_vars

----------------------------------------------------------------------------
(* The extraction on every response *)

ExtractInstances ==
    /\ extracted = <<>>
    /\ response # <<>>
    /\ extracted' = <<extract_instances_from_response(response[1])>>
    /\ pc' = "extracted"
    /\ UNCHANGED <<environ, credResult, response, out, exc, exitCode,
                   ec2_client, sdkCalls, credCalls, calls, handler, passed_client, invocations,
                   reads, lastInput, instance_id, ami_id, instance_type,
                   confirmation, state_filter>>

InitExtract ==
    /\ environ = <<>>
    /\ response \in {<<r>> : r \in Responses}
    /\ InitProcess

NextExtract == ExtractInstances

SpecExtract == InitExtract /\ [][NextExtract]_vars

----------------------------------------------------------------------------
(* The interactive session: what input() and the remote API can do *)

MenuLines ==
    { <<"1">>, <<"2">>, <<"3">>, <<"4">>, <<"5">>, <<"6">>, <<"7">>, <<"0">>,
      <<"9">>, <<" ", "6">> }

IdLines == { <<>>, <<" ">>, <<"i", "-", "x">>, <<" ", "i", "-", "y", "\t">> }

AmiLines == { <<>>, <<"a", "m", "i">>, <<" ", "a", "m", "i", " ">> }

TypeLines == { <<" ", "\t">>, <<"t", "2">> }

ConfirmLines ==
    { <<>>, <<"y", "e", "s">>, <<"Y", "E", "S">>, <<" ", "Y", "e", "s", "\t">>,
      <<"n", "o">>, <<"y", "e", "s", "s">>, <<"y", " ", "e", "s">> }

StateLines ==
    { <<>>, <<" ">>, <<"r", "u", "n", "n", "i", "n", "g">>,
      <<" ", "R", "u", "n", "n", "i", "n", "g">>, <<"b", "o", "g", "u", "s">> }

\* input(): a line, or EOFError on exhausted input, or KeyboardInterrupt
Input(lines) ==
    {[kind |-> "line", line |-> l] : l \in lines} \cup
    {[kind |-> "EOFError", line |-> <<>>], [kind |-> "KeyboardInterrupt", line |-> <<>>]}

\* a remote call returns, raises ClientError (the service refused), raises
\* another botocore error (no connection), or is interrupted from the keyboard
RemoteOutcomes == {"ok", "ClientError", "BotoCoreError", "KeyboardInterrupt"}
RemoteFailures == {"ClientError", "BotoCoreError"}

ListResponses ==
    { [ResponseMetadata |-> "200"],
      [ResponseMetadata |-> "200", Reservations |-> <<>>],
      [ResponseMetadata |-> "200", Reservations |->
          << [ReservationId |-> "r-1", Instances |->
                << [InstanceId |-> "i-1", State |-> [Name |-> "running"],
                    InstanceType |-> "t2.micro",
                    Placement |-> [AvailabilityZone |-> "us-east-1a"]] >>],
             [ReservationId |-> "r-1", Instances |->
                << [InstanceId |-> "i-2", State |-> [Name |-> "stopped"],
                    InstanceType |-> "t3.micro",
                    Placement |-> [AvailabilityZone |-> "us-east-1b"]] >>] >>],
      [ResponseMetadata |-> "200", Reservations |->
          << [ReservationId |-> "r-1", Instances |->
                << [InstanceId |-> "i-3", State |-> [Code |-> "16"],
                    InstanceType |-> "t2.micro"] >>] >>] }

RunResponses == { [Instances |-> << [InstanceId |-> "i-new"] >>] }

\* one remote call: the client method, its keyword arguments, what came of it
Call(op, kwargs, outcome) == [op |-> op, kwargs |-> kwargs, outcome |-> outcome]

Rule70 == Msg("=" , <<"70">>)
Rule50 == Msg("=" , <<"50">>)

----------------------------------------------------------------------------
(* src/src/main.py: main *)

\* except SystemExit: return
StartupExcept ==
    /\ pc = "startup_raised"
    /\ pc' = "exited"
    /\ IF IsInstance(exc.kind, "SystemExit")
       THEN exitCode' = 0 /\ exc' = NoExc
       ELSE exitCode' = 1 /\ exc' = exc
    /\ UNCHANGED <<environ, credResult, response, extracted, out, ec2_client,
                   sdkCalls, credCalls, calls, handler, passed_client, invocations, reads,
                   lastInput, instance_id, ami_id, instance_type, confirmation,
                   state_filter>>

\* the header a handler prints before its first prompt
Header(option) ==
    CASE option = <<"2">> ->
            << Rule70, Msg("Create EC2 Instance", <<>>), Rule70,
               Msg("Note: Use Free Tier eligible options (t2.micro or t3.micro)", <<>>),
               Msg("", <<>>) >>
      [] option = <<"3">> -> << Rule70, Msg("Stop EC2 Instance", <<>>), Rule70 >>
      [] option = <<"4">> -> << Rule70, Msg("Start EC2 Instance", <<>>), Rule70 >>
      [] option = <<"5">> -> << Rule70, Msg("Reboot EC2 Instance", <<>>), Rule70 >>
      [] option = <<"6">> ->
            << Rule70, Msg("Terminate EC2 Instance", <<>>), Rule70,
               Msg("WARNING: This action cannot be undone!", <<>>) >>
      [] option = <<"7">> ->
            << Rule50, Msg("Filter Instances by State", <<>>), Rule50,
               Msg("Available states:", <<>>), Msg("  - pending", <<>>),
               Msg("  - running", <<>>), Msg("  - stopping", <<>>),
               Msg("  - stopped", <<>>), Msg("  - terminated", <<>>) >>
      [] OTHER -> <<>>

\* the function main calls for an option, None for "0" and for an invalid one
Dispatch(option) ==
    CASE option = <<"1">> -> "list_instances"
      [] option = <<"2">> -> "create_instance"
      [] option = <<"3">> -> "stop_instance"
      [] option = <<"4">> -> "start_instance"
      [] option = <<"5">> -> "reboot_instance"
      [] option = <<"6">> -> "terminate_instance"
      [] option = <<"7">> -> "handle_filter_by_state"
      [] OTHER -> None

\* where the called function first waits: a prompt or its remote call
EntryPc(fn) ==
    CASE fn = "list_instances" -> "list_call"
      [] fn = "create_instance" -> "create_ami"
      [] fn = "stop_instance" -> "stop_id"
      [] fn = "start_instance" -> "start_id"
      [] fn = "reboot_instance" -> "reboot_id"
      [] fn = "terminate_instance" -> "terminate_id"
      [] fn = "handle_filter_by_state" -> "filter_state"

\* a dispatch that builds a client of its own for the handler
HandlerArgument_Fresh(client) == <<[service |-> "ec2", kwargs |-> [k \in {} |-> None]]>>

\* the argument of every call in the if/elif chain: main's ec2_client
HandlerArgument(client) == client

FreshLocals ==
    /\ instance_id' = <<>>
    /\ ami_id' = <<>>
    /\ instance_type' = <<>>
    /\ confirmation' = <<>>
    /\ state_filter' = <<>>

\* one pass of the while loop up to the first wait of the chosen handler:
\* print_menu(), input("Select an option: ").strip(), the if/elif chain
MenuPrompt ==
    /\ pc = "menu"
    /\ reads < MaxReads
    /\ reads' = reads + 1
    /\ calls' = <<>>
    /\ FreshLocals
    /\ \E r \in Input(MenuLines) :
         LET shown == Append(out, Msg("print_menu", <<>>))
             option == Strip(r.line)
             fn == Dispatch(option)
         IN  IF r.kind # "line"
             THEN /\ exc' = Exc(r.kind, -1)
                  /\ pc' = "loop_raised"
                  /\ out' = shown
                  /\ UNCHANGED <<lastInput, handler, passed_client, invocations, exitCode>>
             ELSE /\ lastInput' = r.line
                  /\ exc' = NoExc
                  /\ IF fn # None
                     THEN /\ handler' = fn
                          /\ passed_client' = HandlerArgument(ec2_client)
                          /\ invocations' = invocations + 1
                          /\ out' = shown \o Header(option)
                          /\ pc' = EntryPc(fn)
                          /\ UNCHANGED exitCode
                     ELSE IF option = <<"0">>
                     THEN /\ out' = Append(shown,
                                 Msg("\nExiting Cloud Instance Manager. Goodbye!", <<>>))
                          /\ pc' = "exited"
                          /\ exitCode' = 0
                          /\ UNCHANGED <<handler, passed_client, invocations>>
                     ELSE /\ out' = Append(shown,
                                 Msg("Error: '{option}' is not a valid option.", option))
                          /\ pc' = "menu"
                          /\ UNCHANGED <<handler, passed_client, invocations, exitCode>>
    /\ UNCHANGED <<environ, credResult, response, extracted, ec2_client,
                   sdkCalls, credCalls>>

\* a loop that lets the end of input through
LoopCatches_NotEndOfInput(kind) == IsInstance(kind, "Exception") /\ kind # "EOFError"

\* a loop that catches the service errors only
LoopCatches_ClientErrorOnly(kind) == IsInstance(kind, "ClientError")

\* except Exception as exc
LoopCatches(kind) == IsInstance(kind, "Exception")

\* a loop without its except KeyboardInterrupt clause
LoopInterrupted_Missing(kind) == FALSE

\* except KeyboardInterrupt
LoopInterrupted(kind) == IsInstance(kind, "KeyboardInterrupt")

\* the except clauses of the while loop
LoopExcept ==
    /\ pc = "loop_raised"
    /\ IF LoopInterrupted(exc.kind)
       THEN /\ out' = out \o << Msg("\n\nOperation cancelled by user.", <<>>),
                                Msg("Exiting Cloud Instance Manager. Goodbye!", <<>>) >>
            /\ pc' = "exited"
            /\ exitCode' = 0
            /\ exc' = NoExc
       ELSE IF LoopCatches(exc.kind)
       THEN /\ out' = out \o << Msg("\nUnexpected error: {exc}", <<exc.kind>>),
                                Msg("Please try again or contact support.", <<>>) >>
            /\ pc' = "menu"
            /\ exc' = NoExc
            /\ UNCHANGED exitCode
       ELSE /\ pc' = "exited"
            /\ exitCode' = IF exc.kind = "SystemExit" THEN exc.code ELSE 1
            /\ UNCHANGED <<out, exc>>
    /\ UNCHANGED <<environ, credResult, response, extracted, ec2_client,
                   sdkCalls, credCalls, calls, handler, passed_client, invocations, reads,
                   lastInput, instance_id, ami_id, instance_type, confirmation,
                   state_filter>>

----------------------------------------------------------------------------
(* src/src/instances_cli.py: the handlers *)

LocalsUnchanged ==
    UNCHANGED <<instance_id, ami_id, instance_type, confirmation, state_filter>>

\* an exception leaves the handler and reaches the try of the while loop
Propagate(kind) ==
    /\ exc' = Exc(kind, -1)
    /\ pc' = "loop_raised"

\* target = _prompt_non_empty(...): the returned value is bound to the local
Assign(target, value) ==
    /\ instance_id' = IF target = "instance_id" THEN value ELSE instance_id
    /\ ami_id' = IF target = "ami_id" THEN value ELSE ami_id
    /\ instance_type' = IF target = "instance_type" THEN value ELSE instance_type
    /\ UNCHANGED <<confirmation, state_filter>>

\* a prompt that tests and returns the line as typed, without .strip()
PromptNonEmpty_NoStrip(here, lines, next, target) ==
    /\ pc = here
    /\ reads < MaxReads
    /\ reads' = reads + 1
    /\ \E r \in Input(lines) :
         LET value == r.line
         IN  IF r.kind # "line"
             THEN /\ Propagate(r.kind)
                  /\ LocalsUnchanged
                  /\ UNCHANGED <<out, lastInput>>
             ELSE /\ lastInput' = r.line
                  /\ exc' = NoExc
                  /\ IF value # <<>>
                     THEN /\ Assign(target, value)
                          /\ pc' = next
                          /\ UNCHANGED out
                     ELSE /\ LocalsUnchanged
                          /\ pc' = here
                          /\ out' = Append(out,
                                Msg("Error: This value is required. Please try again.", <<>>))
    /\ UNCHANGED <<environ, credResult, response, extracted, exitCode,
                   ec2_client, sdkCalls, credCalls, calls, handler, passed_client, invocations>>

\* one pass of the while loop of _prompt_non_empty: input(prompt_text).strip(),
\* return the value when it is non-empty, print the error and go round otherwise
PromptNonEmpty(here, lines, next, target) ==
    /\ pc = here
    /\ reads < MaxReads
    /\ reads' = reads + 1
    /\ \E r \in Input(lines) :
         LET value == Strip(r.line)
         IN  IF r.kind # "line"
             THEN /\ Propagate(r.kind)
                  /\ LocalsUnchanged
                  /\ UNCHANGED <<out, lastInput>>
             ELSE /\ lastInput' = r.line
                  /\ exc' = NoExc
                  /\ IF value # <<>>
                     THEN /\ Assign(target, value)
                          /\ pc' = next
                          /\ UNCHANGED out
                     ELSE /\ LocalsUnchanged
                          /\ pc' = here
                          /\ out' = Append(out,
                                Msg("Error: This value is required. Please try again.", <<>>))
    /\ UNCHANGED <<environ, credResult, response, extracted, exitCode,
                   ec2_client, sdkCalls, credCalls, calls, handler, passed_client, invocations>>

\* a handler without its except clause
HandlerCatches_Nothing(kind) == FALSE

\* the except clause of every handler: except ClientError
HandlerCatches(kind) == IsInstance(kind, "ClientError")

\* a handler that calls again when the call failed
Issue_Retry(log, op, kwargs, outcome) ==
    IF outcome \in {"ClientError", "BotoCoreError"}
    THEN Append(Append(log, Call(op, kwargs, outcome)), Call(op, kwargs, outcome))
    ELSE Append(log, Call(op, kwargs, outcome))

\* the call log after the one call a handler makes
Issue(log, op, kwargs, outcome) == Append(log, Call(op, kwargs, outcome))

\* the try block of stop_instance, start_instance, reboot_instance and
\* terminate_instance: one call on [instance_id], then the success or the
\* failure lines
InstanceCall(here, op, sent, failed) ==
    /\ pc = here
    /\ \E o \in RemoteOutcomes :
         /\ calls' = Issue(calls, op, [InstanceIds |-> <<instance_id>>], o)
         /\ IF o = "ok"
            THEN /\ out' = out \o << Msg(sent, instance_id), Rule70 >>
                 /\ pc' = "menu"
                 /\ exc' = NoExc
            ELSE IF HandlerCatches(o)
            THEN /\ out' = out \o << Msg(failed, instance_id),
                                     Msg("Details: {exc}", <<o>>), Rule70 >>
                 /\ pc' = "menu"
                 /\ exc' = NoExc
            ELSE /\ Propagate(o)
                 /\ UNCHANGED out
    /\ LocalsUnchanged
    /\ UNCHANGED <<environ, credResult, response, extracted, exitCode,
                   ec2_client, sdkCalls, credCalls, handler, passed_client, invocations, reads,
                   lastInput>>

StopPrompt == PromptNonEmpty("stop_id", IdLines, "stop_call", "instance_id")

StopCall ==
    InstanceCall("stop_call", "stop_instances",
                 "\nSuccess: Stop request sent for instance {instance_id}",
                 "\nError: Failed to stop instance {instance_id}")

StartPrompt == PromptNonEmpty("start_id", IdLines, "start_call", "instance_id")

\* start_instance written from stop_instance with the call left as it was
StartCall_CallsStop ==
    InstanceCall("start_call", "stop_instances",
                 "\nSuccess: Start request sent for instance {instance_id}",
                 "\nError: Failed to start instance {instance_id}")

StartCall ==
    InstanceCall("start_call", "start_instances",
                 "\nSuccess: Start request sent for instance {instance_id}",
                 "\nError: Failed to start instance {instance_id}")

RebootPrompt == PromptNonEmpty("reboot_id", IdLines, "reboot_call", "instance_id")

RebootCall ==
    InstanceCall("reboot_call", "reboot_instances",
                 "\nSuccess: Reboot request sent for instance {instance_id}",
                 "\nError: Failed to reboot instance {instance_id}")

TerminatePrompt ==
    PromptNonEmpty("terminate_id", IdLines, "terminate_confirm", "instance_id")

\* input(...).strip() without .lower()
NormalizeConfirmation_NoLower(line) == Strip(line)

\* input(...).strip().lower()
NormalizeConfirmation(line) == Lower(Strip(line))

\* the confirmation prompt of terminate_instance and the test that follows it
TerminateConfirm ==
    /\ pc = "terminate_confirm"
    /\ reads < MaxReads
    /\ reads' = reads + 1
    /\ \E r \in Input(ConfirmLines) :
         IF r.kind # "line"
         THEN /\ Propagate(r.kind)
              /\ UNCHANGED <<out, lastInput, confirmation>>
         ELSE /\ lastInput' = r.line
              /\ confirmation' = <<NormalizeConfirmation(r.line)>>
              /\ exc' = NoExc
              /\ IF confirmation'[1] # <<"y", "e", "s">>
                 THEN /\ out' = out \o << Msg("\nTermination cancelled.", <<>>), Rule70 >>
                      /\ pc' = "menu"
                 ELSE /\ pc' = "terminate_call"
                      /\ UNCHANGED out
    /\ UNCHANGED <<environ, credResult, response, extracted, exitCode,
                   ec2_client, sdkCalls, credCalls, calls, handler, passed_client, invocations,
                   instance_id, ami_id, instance_type, state_filter>>

TerminateCall ==
    InstanceCall("terminate_call", "terminate_instances",
                 "\nSuccess: Terminate request sent for instance {instance_id}",
                 "\nError: Failed to terminate instance {instance_id}")

CreatePromptAmi == PromptNonEmpty("create_ami", AmiLines, "create_type", "ami_id")

CreatePromptType ==
    PromptNonEmpty("create_type", TypeLines, "create_call", "instance_type")

\* the two values passed the wrong way round
RunKwargs_Swapped(ami, type) ==
    [ImageId |-> type, InstanceType |-> ami, MinCount |-> 1, MaxCount |-> 1]

\* the keyword arguments of the run_instances call
RunKwargs(ami, type) ==
    [ImageId |-> ami, InstanceType |-> type, MinCount |-> 1, MaxCount |-> 1]

\* the try block of create_instance; the new identifier is read from the
\* response and printed
CreateCall ==
    /\ pc = "create_call"
    /\ \E o \in RemoteOutcomes :
         /\ calls' = Issue(calls, "run_instances", RunKwargs(ami_id, instance_type), o)
         /\ IF o = "ok"
            THEN /\ \E resp \in RunResponses :
                      out' = out \o
                        << Msg("\nSuccess: Instance created with ID: {instance_id}",
                               <<resp.Instances[1].InstanceId>>), Rule70 >>
                 /\ pc' = "menu"
                 /\ exc' = NoExc
            ELSE IF HandlerCatches(o)
            THEN /\ out' = out \o << Msg("\nError: Failed to create instance.", <<>>),
                                     Msg("Details: {exc}", <<o>>), Rule70 >>
                 /\ pc' = "menu"
                 /\ exc' = NoExc
            ELSE /\ Propagate(o)
                 /\ UNCHANGED out
    /\ LocalsUnchanged
    /\ UNCHANGED <<environ, credResult, response, extracted, exitCode,
                   ec2_client, sdkCalls, credCalls, handler, passed_client, invocations, reads,
                   lastInput>>

----------------------------------------------------------------------------
(* src/src/instances_cli.py: list_instances *)

NoKwargs == [k \in {} |-> None]

\* if state_filter: the parameter is neither None nor the empty string
FilterGiven(sf) == sf # <<>> /\ sf[1] # <<>>

\* a query that leaves the filter out
DescribeKwargs_Unfiltered(sf) == NoKwargs

\* the keyword arguments of the describe_instances call
DescribeKwargs(sf) ==
    IF FilterGiven(sf)
    THEN [Filters |-> << [Name |-> "instance-state-name", Values |-> <<sf[1]>>] >>]
    ELSE NoKwargs

\* a format specification applied to None raises TypeError
FormatFails(inst) == inst.id = None \/ inst.state = None \/ inst.type = None

Row(inst) ==
    Msg("ID: {id:<20} State: {state:<12} Type: {type:<12} AZ: {az}",
        <<inst.id, inst.state, inst.type, inst.az>>)

RECURSIVE PrintRows(_)
\* the for loop over the instances: the lines printed, and whether a row raised
PrintRows(instances) ==
    IF instances = <<>> THEN [printed |-> <<>>, raised |-> FALSE]
    ELSE IF FormatFails(Head(instances)) THEN [printed |-> <<>>, raised |-> TRUE]
    ELSE LET rest == PrintRows(Tail(instances))
         IN  [printed |-> <<Row(Head(instances))>> \o rest.printed,
              raised |-> rest.raised]

\* what list_instances prints for a response, and whether printing raised
Listing(sf, instances) ==
    IF instances = <<>>
    THEN [printed |-> << IF FilterGiven(sf)
                         THEN Msg("\nNo instances found in state: {state_filter}", sf[1])
                         ELSE Msg("\nNo instances found in this account or region.", <<>>) >>,
          raised |-> FALSE]
    ELSE LET rows == PrintRows(instances)
             head == << Msg("\n=", <<"70">>),
                        IF FilterGiven(sf)
                        THEN Msg("Instances with state: {state_filter}", sf[1])
                        ELSE Msg("All Instances", <<>>),
                        Rule70 >>
         IN  [printed |-> head \o rows.printed \o (IF rows.raised THEN <<>> ELSE <<Rule70>>),
              raised |-> rows.raised]

\* the try block of list_instances
ListCall ==
    /\ pc = "list_call"
    /\ \E o \in RemoteOutcomes :
         /\ calls' = Issue(calls, "describe_instances", DescribeKwargs(state_filter), o)
         /\ IF o = "ok"
            THEN \E resp \in ListResponses :
                   LET instances == extract_instances_from_response(resp)
                       shown == Listing(state_filter, instances)
                   IN  /\ response' = <<resp>>
                       /\ extracted' = <<instances>>
                       /\ out' = out \o shown.printed
                       /\ IF shown.raised
                          THEN Propagate("TypeError")
                          ELSE pc' = "menu" /\ exc' = NoExc
            ELSE /\ UNCHANGED <<response, extracted>>
                 /\ IF HandlerCatches(o)
                    THEN /\ out' = out \o << Msg("\nError: Failed to list instances.", <<>>),
                                             Msg("Details: {exc}", <<o>>) >>
                         /\ pc' = "menu"
                         /\ exc' = NoExc
                    ELSE /\ Propagate(o)
                         /\ UNCHANGED out
    /\ LocalsUnchanged
    /\ UNCHANGED <<environ, credResult, exitCode, ec2_client, sdkCalls,
                   credCalls, handler, passed_client, invocations, reads, lastInput>>

----------------------------------------------------------------------------
(* src/src/main.py: handle_filter_by_state *)

valid_states ==
    { <<"p", "e", "n", "d", "i", "n", "g">>, <<"r", "u", "n", "n", "i", "n", "g">>,
      <<"s", "t", "o", "p", "p", "i", "n", "g">>, <<"s", "t", "o", "p", "p", "e", "d">>,
      <<"t", "e", "r", "m", "i", "n", "a", "t", "e", "d">> }

\* input(...).lower() without .strip()
NormalizeState_NoStrip(line) == Lower(line)

\* input("\nEnter state to filter by: ").strip().lower()
NormalizeState(line) == Lower(Strip(line))

\* a validation that turns the unknown states away
FilterRejects_Unknown(state) == state = <<>> \/ state \notin valid_states

\* if not state: the handler returns without listing
FilterRejects(state) == state = <<>>

\* the prompt of handle_filter_by_state, its checks and the call of list_instances
FilterByState ==
    /\ pc = "filter_state"
    /\ reads < MaxReads
    /\ reads' = reads + 1
    /\ \E r \in Input(StateLines) :
         LET state == NormalizeState(r.line)
         IN  IF r.kind # "line"
             THEN /\ Propagate(r.kind)
                  /\ UNCHANGED <<out, lastInput, state_filter, handler, passed_client,
                                 invocations>>
             ELSE /\ lastInput' = r.line
                  /\ exc' = NoExc
                  /\ IF FilterRejects(state)
                     THEN /\ out' = Append(out, Msg("Error: State cannot be empty.", <<>>))
                          /\ pc' = "menu"
                          /\ UNCHANGED <<state_filter, handler, passed_client, invocations>>
                     ELSE /\ out' = out \o
                               (IF state \notin valid_states
                                THEN << Msg("Warning: '{state}' might not be a valid state.", state),
                                        Msg("Proceeding anyway...", <<>>) >>
                                ELSE <<>>)
                          /\ state_filter' = <<state>>
                          /\ handler' = "list_instances"
                          /\ passed_client' = passed_client
                          /\ invocations' = invocations + 1
                          /\ pc' = "list_call"
    /\ UNCHANGED <<environ, credResult, response, extracted, exitCode,
                   ec2_client, sdkCalls, credCalls, calls, instance_id, ami_id,
                   instance_type, confirmation>>

----------------------------------------------------------------------------
(* The process *)

MainEnvs ==
    { [k \in {} |-> ""],
      [AWS_ACCESS_KEY_ID |-> "A"],
      [AWS_ACCESS_KEY_ID |-> "", AWS_SECRET_ACCESS_KEY |-> "B"],
      [AWS_ACCESS_KEY_ID |-> "A", AWS_SECRET_ACCESS_KEY |-> "B"],
      [AWS_ACCESS_KEY_ID |-> "A", AWS_SECRET_ACCESS_KEY |-> "B",
       AWS_SESSION_TOKEN |-> "A", AWS_DEFAULT_REGION |-> "B"] }

Init ==
    /\ environ \in MainEnvs
    /\ response = <<>>
    /\ InitProcess

Next ==
    \/ CreateEc2Client
    \/ StartupExcept
    \/ MenuPrompt
    \/ LoopExcept
    \/ ListCall
    \/ FilterByState
    \/ CreatePromptAmi
    \/ CreatePromptType
    \/ CreateCall
    \/ StopPrompt
    \/ StopCall
    \/ StartPrompt
    \/ StartCall
    \/ RebootPrompt
    \/ RebootCall
    \/ TerminatePrompt
    \/ TerminateConfirm
    \/ TerminateCall

Spec == Init /\ [][Next]_vars

----------------------------------------------------------------------------
(* Properties of the credential resolver (under SpecCfg) *)

\* the variable is absent from the environment or set to the empty string
AbsentOrEmpty(key) == key \notin DOMAIN environ \/ environ[key] = ""

\* C5: get_aws_credentials raises ValueError and returns no bundle whenever the
\* access key or the secret key is absent or empty; otherwise it returns a
\* bundle holding exactly those two values, with region "us-east-1" when the
\* region variable is absent.
C5_CredentialsRequired ==
    credResult # <<>> =>
        LET r == credResult[1]
        IN  IF AbsentOrEmpty("AWS_ACCESS_KEY_ID") \/ AbsentOrEmpty("AWS_SECRET_ACCESS_KEY")
            THEN /\ ~r.ok
                 /\ r.exc = "ValueError"
                 /\ "value" \notin DOMAIN r
            ELSE /\ r.ok
                 /\ r.value["aws_access_key_id"] = environ["AWS_ACCESS_KEY_ID"]
                 /\ r.value["aws_secret_access_key"] = environ["AWS_SECRET_ACCESS_KEY"]
                 /\ ("AWS_DEFAULT_REGION" \notin DOMAIN environ
                        => r.value["region_name"] = "us-east-1")

\* the resolver was called with the access key set and the secret key empty,
\* and raised
C5_Witness ==
    /\ credResult # <<>>
    /\ "AWS_ACCESS_KEY_ID" \in DOMAIN environ
    /\ environ["AWS_ACCESS_KEY_ID"] = "A"
    /\ "AWS_SECRET_ACCESS_KEY" \in DOMAIN environ
    /\ environ["AWS_SECRET_ACCESS_KEY"] = ""
    /\ ~credResult[1].ok
    /\ credResult[1].exc = "ValueError"

\* C6: a returned bundle has the key aws_session_token exactly when the
\* environment's session token is present and non-empty, and then with that
\* value; no bundle carries an empty or None token.
C6_SessionTokenIffSet ==
    (credResult # <<>> /\ credResult[1].ok) =>
        LET bundle == credResult[1].value
        IN  /\ "aws_session_token" \in DOMAIN bundle <=> ~AbsentOrEmpty("AWS_SESSION_TOKEN")
            /\ "aws_session_token" \in DOMAIN bundle =>
                  /\ bundle["aws_session_token"] = environ["AWS_SESSION_TOKEN"]
                  /\ bundle["aws_session_token"] \notin {"", None}

\* a bundle was returned for an environment whose token is set but empty
C6_Witness ==
    /\ credResult # <<>>
    /\ credResult[1].ok
    /\ "AWS_SESSION_TOKEN" \in DOMAIN environ
    /\ environ["AWS_SESSION_TOKEN"] = ""
    /\ DOMAIN credResult[1].value =
          {"aws_access_key_id", "aws_secret_access_key", "region_name"}

----------------------------------------------------------------------------
(* Properties of the client factory (under SpecCfg) *)

ConfigurationErrorText == "Configuration error: {exc}"
NoCredentialsText ==
    "AWS credentials not found. Please run 'aws configure' or set environment variables."
ConstructionErrorText == "Unexpected error while creating EC2 client: {exc}"

\* C7: create_ec2_client resolves the credentials once and constructs at most
\* once; it returns the handle of that one construction, made with exactly the
\* resolved bundle as keyword arguments, or it prints one message, a different
\* one for a resolver failure, a NoCredentialsError and another BotoCoreError,
\* and raises SystemExit(1).
C7_FactoryOutcome ==
    pc \in {"menu", "startup_raised"} =>
        LET creds == get_aws_credentials(environ)
        IN  /\ credCalls = 1
            /\ Len(sdkCalls) <= 1
            /\ creds.ok <=> Len(sdkCalls) = 1
            /\ creds.ok => sdkCalls[1].kwargs = creds.value
            /\ pc = "menu" =>
                  /\ creds.ok
                  /\ sdkCalls[1].outcome = "ok"
                  /\ ec2_client = <<[service |-> "ec2", kwargs |-> creds.value]>>
                  /\ out = <<>>
                  /\ exc = NoExc
            /\ pc = "startup_raised" =>
                  /\ exc = Exc("SystemExit", 1)
                  /\ ec2_client = <<>>
                  /\ Len(out) = 1
                  /\ ~creds.ok => out[1].text = ConfigurationErrorText
                  /\ creds.ok =>
                        /\ sdkCalls[1].outcome \in {"NoCredentialsError", "BotoCoreError"}
                        /\ sdkCalls[1].outcome = "NoCredentialsError"
                              => out[1].text = NoCredentialsText
                        /\ sdkCalls[1].outcome = "BotoCoreError"
                              => out[1].text = ConstructionErrorText
            /\ Cardinality({ConfigurationErrorText, NoCredentialsText,
                            ConstructionErrorText}) = 3

\* the construction raised NoCredentialsError and the factory gave up
C7_Witness ==
    /\ pc = "startup_raised"
    /\ Len(sdkCalls) = 1
    /\ sdkCalls[1].outcome = "NoCredentialsError"
    /\ "aws_session_token" \in DOMAIN sdkCalls[1].kwargs
    /\ out[1].text = NoCredentialsText
    /\ exc = Exc("SystemExit", 1)

----------------------------------------------------------------------------
(* Properties of the extraction (under SpecExtract) *)

\* the reservations of a response, none when the key is missing
ReservationsOf(resp) ==
    IF "Reservations" \in DOMAIN resp THEN resp["Reservations"] ELSE <<>>

\* the instances of a reservation, none when the key is missing
InstancesOf(r) == IF "Instances" \in DOMAIN r THEN r["Instances"] ELSE <<>>

\* C9: the extraction yields a list for every response, and the empty list
\* when the response has no Reservations key, no reservation, or only
\* reservations whose instance lists are empty.
C9_ExtractEmpty ==
    /\ response # <<>> =>
          \A i \in DOMAIN extract_instances_from_response(response[1]) :
              DOMAIN extract_instances_from_response(response[1])[i] # {}
    /\ extracted # <<>> =>
          LET resp == response[1]
          IN  (\/ "Reservations" \notin DOMAIN resp
               \/ resp["Reservations"] = <<>>
               \/ \A i \in DOMAIN resp["Reservations"] :
                     /\ "Instances" \in DOMAIN resp["Reservations"][i]
                     /\ resp["Reservations"][i]["Instances"] = <<>>)
              => extracted[1] = <<>>

\* the extraction ran on two reservations that both hold an empty instance list
C9_Witness ==
    /\ extracted # <<>>
    /\ "Reservations" \in DOMAIN response[1]
    /\ Len(response[1]["Reservations"]) = 2
    /\ \A i \in 1..2 :
          /\ "Instances" \in DOMAIN response[1]["Reservations"][i]
          /\ response[1]["Reservations"][i]["Instances"] = <<>>
    /\ extracted[1] = <<>>

RECURSIVE InstanceCount(_, _)
\* the instances in the first n reservations
InstanceCount(rs, n) ==
    IF n = 0 THEN 0 ELSE InstanceCount(rs, n - 1) + Len(InstancesOf(rs[n]))

\* the record the claim asks for, read off the instance field by field
Summary(inst) ==
    [id |-> IF "InstanceId" \in DOMAIN inst THEN inst["InstanceId"] ELSE None,
     state |-> IF "State" \in DOMAIN inst /\ "Name" \in DOMAIN inst["State"]
               THEN inst["State"]["Name"] ELSE None,
     type |-> IF "InstanceType" \in DOMAIN inst THEN inst["InstanceType"] ELSE None,
     az |-> IF "Placement" \in DOMAIN inst
               /\ "AvailabilityZone" \in DOMAIN inst["Placement"]
            THEN inst["Placement"]["AvailabilityZone"] ELSE None]

\* C10: the extraction returns one record per instance, as many as the
\* reservations hold together, reservation by reservation and, within one,
\* instance by instance; each record has the keys id, state, type, az with the
\* values of InstanceId, State.Name, InstanceType, Placement.AvailabilityZone.
C10_ExtractFlattens ==
    extracted # <<>> =>
        LET rs == ReservationsOf(response[1])
            got == extracted[1]
        IN  /\ Len(got) = InstanceCount(rs, Len(rs))
            /\ \A a \in DOMAIN rs : \A b \in DOMAIN InstancesOf(rs[a]) :
                  LET rec == got[InstanceCount(rs, a - 1) + b]
                  IN  /\ DOMAIN rec = {"id", "state", "type", "az"}
                      /\ rec = Summary(rs[a]["Instances"][b])

\* the extraction ran on two reservations, i-3 then i-1 in the first and i-1
\* in the second
C10_Witness ==
    /\ extracted # <<>>
    /\ Len(ReservationsOf(response[1])) = 2
    /\ Len(InstancesOf(response[1]["Reservations"][1])) = 2
    /\ Len(InstancesOf(response[1]["Reservations"][2])) = 1
    /\ Len(extracted[1]) = 3
    /\ extracted[1][1] = [id |-> "i-3", state |-> None, type |-> "t3.micro", az |-> None]
    /\ extracted[1][2] = [id |-> "i-1", state |-> "running", type |-> "t2.micro",
                          az |-> "us-east-1a"]
    /\ extracted[1][3].id = "i-1"

----------------------------------------------------------------------------
(* Properties of the session (under Spec) *)

\* the typed line is "yes" in any letter case between optional whitespace
SaysYes(line) ==
    \E i \in 1..Len(line) :
        /\ i + 2 <= Len(line)
        /\ line[i] \in {"y", "Y"}
        /\ line[i + 1] \in {"e", "E"}
        /\ line[i + 2] \in {"s", "S"}
        /\ \A k \in 1..Len(line) : (k < i \/ k > i + 2) => line[k] \in Whitespace

\* terminate_instance has read its confirmation (lastInput is that line until
\* the next menu prompt)
ConfirmationRead == handler = "terminate_instance" /\ confirmation # <<>>

CancelledLines == << Msg("\nTermination cancelled.", <<>>), Rule70 >>

\* the last n printed lines
LastLines(n) == IF Len(out) < n THEN <<>> ELSE SubSeq(out, Len(out) - n + 1, Len(out))

\* C1: once terminate_instance has read the confirmation, it issues exactly one
\* terminate_instances call, on the one-element list of the entered identifier,
\* if and only if the typed line is "yes" up to case and surrounding whitespace;
\* otherwise it issues no call and prints the cancellation message.
C1_TerminateOnlyOnYes ==
    ConfirmationRead =>
        IF SaysYes(lastInput)
        THEN \/ pc = "terminate_call" /\ calls = <<>>
             \/ /\ pc # "terminate_call"
                /\ Len(calls) = 1
                /\ calls[1].op = "terminate_instances"
                /\ calls[1].kwargs = [InstanceIds |-> <<instance_id>>]
                /\ instance_id \in {<<"i", "-", "x">>, <<"i", "-", "y">>}
        ELSE /\ calls = <<>>
             /\ pc = "menu"
             /\ LastLines(2) = CancelledLines

\* "YES" was typed and the one terminate call on ["i-x"] has been made
C1_Witness ==
    /\ ConfirmationRead
    /\ lastInput = <<"Y", "E", "S">>
    /\ pc = "menu"
    /\ Len(calls) = 1
    /\ calls[1] = Call("terminate_instances", [InstanceIds |-> << <<"i", "-", "x">> >>], "ok")

\* the last remote call of the current handler invocation failed with this class
LastCallFailedWith(kind) == calls # <<>> /\ calls[Len(calls)].outcome = kind

\* C2 as the specification states it: no failure of a remote call leaves the
\* handler that made the call.
C2_NoRemoteFailureLeavesHandler ==
    \A kind \in RemoteFailures :
        ~(pc = "loop_raised" /\ exc.kind = kind /\ LastCallFailedWith(kind))

\* C2: a remote call that fails with ClientError never leaves its handler: the
\* handler prints its failure lines and returns to the menu loop; a remote call
\* that fails with another botocore error leaves the handler and is caught by
\* the menu loop.
C2_ClientErrorCaughtInHandler ==
    /\ LastCallFailedWith("ClientError") =>
          /\ pc = "menu"
          /\ exc = NoExc
          /\ \E n \in {2, 3} :
                /\ Len(out) >= n
                /\ out[Len(out) - n + 1].text \in
                      {"\nError: Failed to list instances.",
                       "\nError: Failed to create instance.",
                       "\nError: Failed to stop instance {instance_id}",
                       "\nError: Failed to start instance {instance_id}",
                       "\nError: Failed to reboot instance {instance_id}",
                       "\nError: Failed to terminate instance {instance_id}"}
                /\ out[Len(out) - n + 2] = Msg("Details: {exc}", <<"ClientError">>)
    /\ LastCallFailedWith("BotoCoreError") =>
          \/ pc = "loop_raised" /\ exc.kind = "BotoCoreError"
          \/ /\ pc = "menu"
             /\ LastLines(2)[1] = Msg("\nUnexpected error: {exc}", <<"BotoCoreError">>)

\* reboot_instance's call failed with ClientError and the handler returned
C2_Witness ==
    /\ handler = "reboot_instance"
    /\ LastCallFailedWith("ClientError")
    /\ pc = "menu"
    /\ LastLines(3)[1].text = "\nError: Failed to reboot instance {instance_id}"

\* C3 as the specification states it: after a failed startup the process has
\* printed one line, run no handler and ended with status 1; the status of an
\* ended process is 0 or 1.
C3_StartupFailureExitsOne ==
    /\ pc = "exited" => exitCode \in {0, 1}
    /\ (pc = "exited" /\ ec2_client = <<>>) =>
          /\ exitCode = 1
          /\ Len(out) = 1
          /\ invocations = 0

UnexpectedLines(kind) ==
    << Msg("\nUnexpected error: {exc}", <<kind>>),
       Msg("Please try again or contact support.", <<>>) >>

\* C4: an exception other than KeyboardInterrupt that reaches the try of the
\* menu loop is caught there: the two unexpected-error lines are printed, the
\* process neither ends nor leaves the loop, and the next thing printed is the
\* menu.
C4_LoopSurvivesExceptions ==
    /\ [][(pc = "loop_raised" /\ exc.kind # "KeyboardInterrupt") =>
            /\ pc' = "menu"
            /\ exitCode' = -1
            /\ exc' = NoExc
            /\ out' = out \o UnexpectedLines(exc.kind)]_vars
    /\ [][(pc = "menu" /\ out' # out) => out'[Len(out) + 1] = Msg("print_menu", <<>>)]_vars

\* a BotoCoreError that left stop_instance was reported and the menu was
\* printed again (the prompt that followed it then ran out of input)
C4_Witness ==
    /\ Len(out) >= 3
    /\ SubSeq(out, Len(out) - 2, Len(out) - 1) = UnexpectedLines("BotoCoreError")
    /\ out[Len(out)] = Msg("print_menu", <<>>)
    /\ handler = "stop_instance"
    /\ pc = "loop_raised"
    /\ exc.kind = "EOFError"

\* C8: a handler invocation issues at most one remote call, whether the call
\* succeeds or fails, and a call on identifiers carries exactly one.
C8_AtMostOneCall ==
    /\ Len(calls) <= 1
    /\ \A i \in DOMAIN calls :
          "InstanceIds" \in DOMAIN calls[i].kwargs => Len(calls[i].kwargs["InstanceIds"]) = 1
    /\ \A i \in DOMAIN calls :
          calls[i].op = "run_instances" =>
              calls[i].kwargs["MinCount"] = 1 /\ calls[i].kwargs["MaxCount"] = 1

\* a handler's only call failed and the handler is over
C8_Witness ==
    /\ Len(calls) = 1
    /\ calls[1].outcome = "ClientError"
    /\ handler = "start_instance"
    /\ pc = "menu"

----------------------------------------------------------------------------
(* The query of list_instances and the lines that name its filter *)

\* the lines printed since the menu was last shown
SinceMenu ==
    LET shown == {i \in DOMAIN out : out[i] = Msg("print_menu", <<>>)}
    IN  IF shown = {} THEN out
        ELSE LET last == CHOOSE i \in shown : \A j \in shown : j <= i
             IN  SubSeq(out, last + 1, Len(out))

Printed(line) == \E i \in DOMAIN SinceMenu : SinceMenu[i] = line

\* the describe_instances query constrained to one lifecycle state
StateQuery(state) ==
    [Filters |-> << [Name |-> "instance-state-name", Values |-> <<state>>] >>]

\* the value of the state_filter parameter, empty when it is None
FilterValue == IF state_filter = <<>> THEN <<>> ELSE state_filter[1]

\* the describe_instances call of this pass of the loop has returned a response
Listed ==
    /\ handler = "list_instances"
    /\ calls # <<>>
    /\ calls[1].outcome = "ok"

\* C11: list_instances issues one describe_instances query; the query is
\* constrained to the lifecycle state with exactly the given value when a
\* state filter is passed and has no keyword argument when none is passed;
\* the header of the table and the line that reports an empty result name
\* the filter exactly when a filter was passed.
C11_QueryAndTitlesFollowFilter ==
    (handler = "list_instances" /\ calls # <<>>) =>
        /\ Len(calls) = 1
        /\ calls[1].op = "describe_instances"
        /\ IF state_filter # <<>>
           THEN calls[1].kwargs = StateQuery(FilterValue)
           ELSE DOMAIN calls[1].kwargs = {}
        /\ Listed =>
             IF extracted[1] = <<>>
             THEN /\ Printed(Msg("\nNo instances found in state: {state_filter}",
                                 FilterValue)) <=> state_filter # <<>>
                  /\ Printed(Msg("\nNo instances found in this account or region.", <<>>))
                       <=> state_filter = <<>>
             ELSE /\ Printed(Msg("Instances with state: {state_filter}", FilterValue))
                       <=> state_filter # <<>>
                  /\ Printed(Msg("All Instances", <<>>)) <=> state_filter = <<>>

\* a filtered listing with rows, and the table titled with the filter
C11_Witness ==
    /\ Listed
    /\ state_filter = << <<"r", "u", "n", "n", "i", "n", "g">> >>
    /\ calls[1].kwargs.Filters[1].Values = << <<"r", "u", "n", "n", "i", "n", "g">> >>
    /\ extracted[1] # <<>>
    /\ Printed(Msg("Instances with state: {state_filter}", <<"r", "u", "n", "n", "i", "n", "g">>))
    /\ pc = "menu"

----------------------------------------------------------------------------
(* What a typed line is once stripped and lower-cased, stated without the  *)
(* operators of the model                                                  *)

\* v is line without its leading and trailing whitespace
IsStripOf(line, v) ==
    \/ /\ v = <<>>
       /\ \A k \in DOMAIN line : line[k] \in Whitespace
    \/ \E i \in DOMAIN line : \E j \in i..Len(line) :
         /\ v = SubSeq(line, i, j)
         /\ line[i] \notin Whitespace
         /\ line[j] \notin Whitespace
         /\ \A k \in 1..(i - 1) : line[k] \in Whitespace
         /\ \A k \in (j + 1)..Len(line) : line[k] \in Whitespace

UpperLetters ==
    <<"A", "B", "C", "D", "E", "F", "G", "H", "I", "J", "K", "L", "M",
      "N", "O", "P", "Q", "R", "S", "T", "U", "V", "W", "X", "Y", "Z">>

LowerLetters ==
    <<"a", "b", "c", "d", "e", "f", "g", "h", "i", "j", "k", "l", "m",
      "n", "o", "p", "q", "r", "s", "t", "u", "v", "w", "x", "y", "z">>

\* v is text with every upper-case letter replaced by its lower-case one
IsLowerOf(text, v) ==
    /\ Len(v) = Len(text)
    /\ \A k \in DOMAIN text :
         IF \E n \in DOMAIN UpperLetters : UpperLetters[n] = text[k]
         THEN \E n \in DOMAIN UpperLetters :
                UpperLetters[n] = text[k] /\ v[k] = LowerLetters[n]
         ELSE v[k] = text[k]

\* line holds nothing but whitespace
Blank(line) == IsStripOf(line, <<>>)

\* v is line stripped and then lower-cased
IsStateOf(line, v) ==
    \E t \in {SubSeq(line, i, j) : i \in 1..(Len(line) + 1), j \in DOMAIN line} \cup {<<>>} :
        IsStripOf(line, t) /\ IsLowerOf(t, v)

----------------------------------------------------------------------------
(* The validation of handle_filter_by_state *)

StateNames ==
    { <<"p", "e", "n", "d", "i", "n", "g">>, <<"r", "u", "n", "n", "i", "n", "g">>,
      <<"s", "t", "o", "p", "p", "i", "n", "g">>, <<"s", "t", "o", "p", "p", "e", "d">>,
      <<"t", "e", "r", "m", "i", "n", "a", "t", "e", "d">> }

\* the line read at the state prompt is not blank and names no lifecycle state
UnknownStateTyped ==
    /\ pc = "filter_state"
    /\ pc' # "loop_raised"
    /\ ~Blank(lastInput')
    /\ \A v \in StateNames : ~IsStateOf(lastInput', v)

\* the lines printed by the step
NewLines == SubSeq(out', Len(out) + 1, Len(out'))

\* C12: the validation of the filter-by-state entry is advisory: for every
\* non-empty state that is none of pending, running, stopping, stopped and
\* terminated, the warning is printed and list_instances is still called
\* with that state, unmodified, as its filter, and its query carries it.
C12_UnknownStateStillListed ==
    [][ /\ UnknownStateTyped =>
            /\ pc' = "list_call"
            /\ handler' = "list_instances"
            /\ invocations' = invocations + 1
            /\ state_filter' # <<>>
            /\ IsStateOf(lastInput', state_filter'[1])
            /\ NewLines = << Msg("Warning: '{state}' might not be a valid state.",
                                 state_filter'[1]),
                             Msg("Proceeding anyway...", <<>>) >>
        /\ (pc = "list_call" /\ state_filter # <<>>) =>
            /\ state_filter' = state_filter
            /\ calls' # <<>>
            /\ calls'[1].op = "describe_instances"
            /\ calls'[1].kwargs.Filters[1].Values = state_filter
      ]_vars

\* the unknown state bogus was typed, warned about, and then queried
C12_Witness ==
    /\ handler = "list_instances"
    /\ lastInput = <<"b", "o", "g", "u", "s">>
    /\ state_filter = << <<"b", "o", "g", "u", "s">> >>
    /\ Printed(Msg("Warning: '{state}' might not be a valid state.",
                   <<"b", "o", "g", "u", "s">>))
    /\ calls # <<>>
    /\ calls[1].kwargs.Filters[1].Values = << <<"b", "o", "g", "u", "s">> >>

----------------------------------------------------------------------------
(* The launch call of create_instance *)

\* the step read a line at the prompt it waits at
LineRead == reads' = reads + 1 /\ pc' # "loop_raised"

\* the step made a remote call
CallMade == calls' # <<>> /\ calls' # calls

\* C13: create_instance issues its launch call only with a non-empty AMI
\* identifier and a non-empty instance type, each being the value the user
\* entered at its prompt (asked again until it is not blank), and the call
\* always requests exactly one instance: MinCount 1 and MaxCount 1.
C13_LaunchCallArguments ==
    [][ /\ (pc = "create_ami" /\ LineRead) =>
            IF Blank(lastInput')
            THEN pc' = "create_ami" /\ ~CallMade
            ELSE /\ pc' = "create_type"
                 /\ IsStripOf(lastInput', ami_id')
                 /\ ~CallMade
        /\ (pc = "create_type" /\ LineRead) =>
            /\ ami_id' = ami_id
            /\ IF Blank(lastInput')
               THEN pc' = "create_type" /\ ~CallMade
               ELSE /\ pc' = "create_call"
                    /\ IsStripOf(lastInput', instance_type')
                    /\ ~CallMade
        /\ (CallMade /\ calls'[Len(calls')].op = "run_instances") =>
            /\ pc = "create_call"
            /\ handler = "create_instance"
            /\ Len(calls') = 1
            /\ ami_id # <<>>
            /\ instance_type # <<>>
            /\ DOMAIN calls'[1].kwargs = {"ImageId", "InstanceType", "MinCount", "MaxCount"}
            /\ calls'[1].kwargs.ImageId = ami_id
            /\ calls'[1].kwargs.InstanceType = instance_type
            /\ calls'[1].kwargs.MinCount = 1
            /\ calls'[1].kwargs.MaxCount = 1
        /\ pc = "create_call" => (CallMade /\ calls'[1].op = "run_instances")
      ]_vars

\* both prompts were answered, one of them after a blank line, and the
\* launch call carries the two stripped values
C13_Witness ==
    /\ handler = "create_instance"
    /\ Len(calls) = 1
    /\ calls[1].op = "run_instances"
    /\ calls[1].kwargs.ImageId = <<"a", "m", "i">>
    /\ calls[1].kwargs.InstanceType = <<"t", "2">>
    /\ calls[1].outcome = "ok"
    /\ reads = 4
    /\ pc = "menu"

----------------------------------------------------------------------------
(* stop_instance, start_instance and reboot_instance *)

PowerHandlers == {"stop_instance", "start_instance", "reboot_instance"}

\* the remote operation that belongs to a handler
OwnOperation(fn) ==
    CASE fn = "stop_instance" -> "stop_instances"
      [] fn = "start_instance" -> "start_instances"
      [] fn = "reboot_instance" -> "reboot_instances"

\* the line a handler prints when its request was accepted
RequestSent(fn) ==
    CASE fn = "stop_instance" -> "\nSuccess: Stop request sent for instance {instance_id}"
      [] fn = "start_instance" -> "\nSuccess: Start request sent for instance {instance_id}"
      [] fn = "reboot_instance" -> "\nSuccess: Reboot request sent for instance {instance_id}"

\* C14: each of stop_instance, start_instance and reboot_instance calls its
\* own remote operation and no other, with an identifier list that holds
\* exactly the one non-empty identifier the user entered; when the call
\* succeeds the confirmation line echoes that identifier.
C14_OwnOperationOnTypedId ==
    /\ (handler \in PowerHandlers /\ calls # <<>>) =>
        /\ Len(calls) = 1
        /\ calls[1].op = OwnOperation(handler)
        /\ DOMAIN calls[1].kwargs = {"InstanceIds"}
        /\ Len(calls[1].kwargs.InstanceIds) = 1
        /\ calls[1].kwargs.InstanceIds[1] # <<>>
        /\ IsStripOf(lastInput, calls[1].kwargs.InstanceIds[1])
        /\ calls[1].outcome = "ok" =>
             /\ pc = "menu"
             /\ LastLines(2)[1] = Msg(RequestSent(handler), calls[1].kwargs.InstanceIds[1])
    /\ \A i \in DOMAIN calls :
         calls[i].op \in {OwnOperation(fn) : fn \in PowerHandlers} =>
             handler \in PowerHandlers /\ calls[i].op = OwnOperation(handler)

\* start_instance, asked again after a blank line, started the identifier
\* typed with whitespace around it
C14_Witness ==
    /\ handler = "start_instance"
    /\ lastInput = <<" ", "i", "-", "y", "\t">>
    /\ calls = << Call("start_instances", [InstanceIds |-> << <<"i", "-", "y">> >>], "ok") >>
    /\ LastLines(2)[1] = Msg("\nSuccess: Start request sent for instance {instance_id}",
                             <<"i", "-", "y">>)
    /\ reads = 3

----------------------------------------------------------------------------
(* The two ways out of the menu loop *)

GoodbyeLine == Msg("\nExiting Cloud Instance Manager. Goodbye!", <<>>)

InterruptedLines ==
    << Msg("\n\nOperation cancelled by user.", <<>>),
       Msg("Exiting Cloud Instance Manager. Goodbye!", <<>>) >>

\* a KeyboardInterrupt is in flight towards the try of the loop
Interrupted == pc = "loop_raised" /\ exc.kind = "KeyboardInterrupt"

\* C15: after a successful startup, option "0", and a KeyboardInterrupt
\* raised at the menu prompt or inside a handler (at a prompt or during the
\* remote call), end the menu loop cleanly: the goodbye line is printed, no
\* further handler runs and the process exits with code 0.
C15_CleanExit ==
    [][ /\ (pc = "menu" /\ LineRead /\ IsStripOf(lastInput', <<"0">>)) =>
            /\ pc' = "exited"
            /\ exitCode' = 0
            /\ NewLines = << Msg("print_menu", <<>>), GoodbyeLine >>
            /\ invocations' = invocations
            /\ calls' = <<>>
        /\ (exc'.kind = "KeyboardInterrupt" /\ exc.kind # "KeyboardInterrupt") =>
            /\ pc \notin {"start", "startup_raised", "exited"}
            /\ pc' = "loop_raised"
            /\ exitCode' = exitCode
        /\ Interrupted =>
            /\ pc' = "exited"
            /\ exitCode' = 0
            /\ NewLines = InterruptedLines
            /\ invocations' = invocations
            /\ calls' = calls
        /\ pc # "exited"
      ]_vars

\* a stop request was interrupted during its remote call and the process
\* ended with the goodbye lines and exit code 0
C15_Witness ==
    /\ pc = "exited"
    /\ exitCode = 0
    /\ handler = "stop_instance"
    /\ Len(calls) = 1
    /\ calls[1].outcome = "KeyboardInterrupt"
    /\ LastLines(2) = InterruptedLines

----------------------------------------------------------------------------
(* The one API handle of a process *)

\* the handle that the one successful construction returned
TheHandle == <<[service |-> "ec2", kwargs |-> sdkCalls[1].kwargs]>>

\* C16: the API handle is constructed exactly once per process, before the
\* first menu prompt and before any handler runs; every handler the menu
\* loop invokes receives that same handle; the loop never constructs a
\* second handle and never resolves the credentials again.
C16_OneHandleForAllHandlers ==
    /\ Len(sdkCalls) <= 1
    /\ credCalls <= 1
    /\ (reads > 0 \/ invocations > 0 \/ handler # None) =>
        /\ Len(sdkCalls) = 1
        /\ sdkCalls[1].outcome = "ok"
        /\ credCalls = 1
        /\ ec2_client = TheHandle
    /\ (invocations > 0 \/ handler # None) => passed_client = TheHandle
    /\ (invocations = 0) => passed_client = <<>>

\* the second handler of a session runs on the handle made at startup
C16_Witness ==
    /\ invocations = 2
    /\ handler = "reboot_instance"
    /\ Len(sdkCalls) = 1
    /\ credCalls = 1
    /\ passed_client = ec2_client
    /\ ec2_client = TheHandle
    /\ Len(calls) = 1

----------------------------------------------------------------------------
(* _prompt_non_empty at the six prompts that use it *)

IdPrompts == {"stop_id", "start_id", "reboot_id", "terminate_id"}

PromptPcs == IdPrompts \cup {"create_ami", "create_type"}

RequiredLine == Msg("Error: This value is required. Please try again.", <<>>)

\* the local the prompt of the step is assigned to, after the step
PromptResult ==
    CASE pc \in IdPrompts -> instance_id'
      [] pc = "create_ami" -> ami_id'
      [] pc = "create_type" -> instance_type'

\* C17: _prompt_non_empty returns the first input line that is non-empty
\* after stripping, and returns it stripped: every pass reads one line, a
\* blank line is answered with the required-value error, once, and another
\* pass, and the first line that is not blank ends the prompt at once, with
\* no error printed, so the lines read are those up to and including it;
\* the value returned is never the empty string.
C17_PromptReturnsFirstNonBlank ==
    [][ (pc \in PromptPcs) =>
          /\ reads' = reads + 1
          /\ LineRead =>
               IF Blank(lastInput')
               THEN /\ pc' = pc
                    /\ NewLines = <<RequiredLine>>
                    /\ <<instance_id', ami_id', instance_type'>>
                         = <<instance_id, ami_id, instance_type>>
               ELSE /\ pc' \notin PromptPcs \/ (pc = "create_ami" /\ pc' = "create_type")
                    /\ NewLines = <<>>
                    /\ IsStripOf(lastInput', PromptResult)
                    /\ PromptResult # <<>>
      ]_vars

\* two blank lines were turned away with one error each and the third line
\* was returned stripped
C17_Witness ==
    /\ pc = "terminate_confirm"
    /\ reads = 4
    /\ lastInput = <<" ", "i", "-", "y", "\t">>
    /\ instance_id = <<"i", "-", "y">>
    /\ LastLines(2) = <<RequiredLine, RequiredLine>>

----------------------------------------------------------------------------
(* How the menu loop can end *)

MenuOptions == {<<"0">>, <<"1">>, <<"2">>, <<"3">>, <<"4">>, <<"5">>, <<"6">>, <<"7">>}

\* the line read at the menu is none of the eight options
InvalidOptionTyped ==
    /\ pc = "menu"
    /\ LineRead
    /\ \A o \in MenuOptions : ~IsStripOf(lastInput', o)

\* the step ends the loop
LoopEnds == pc \notin {"start", "startup_raised", "exited"} /\ pc' = "exited"

RECURSIVE EndOfInputOutput(_)
\* everything printed by n passes of the loop on an exhausted standard input
EndOfInputOutput(n) ==
    IF n = 0 THEN <<>>
    ELSE EndOfInputOutput(n - 1) \o <<Msg("print_menu", <<>>)>> \o UnexpectedLines("EOFError")

\* C18: the menu loop can end only through option "0" or a
\* KeyboardInterrupt; every other outcome of a pass, an invalid option and
\* an EOFError raised by the menu prompt itself among them, leads back to
\* the menu prompt; so on an exhausted standard input every pass prints the
\* unexpected-error lines again and the loop does not end.
C18_LoopEndsOnlyOnZeroOrInterrupt ==
    [][ /\ LoopEnds =>
            \/ pc = "menu" /\ LineRead /\ IsStripOf(lastInput', <<"0">>)
            \/ Interrupted
        /\ InvalidOptionTyped =>
            /\ pc' = "menu"
            /\ exitCode' = exitCode
            /\ invocations' = invocations
        /\ (pc = "menu" /\ exc'.kind = "EOFError") => pc' = "loop_raised"
        /\ (pc = "loop_raised" /\ ~Interrupted) =>
            /\ pc' = "menu"
            /\ NewLines = UnexpectedLines(exc.kind)
            /\ exitCode' = exitCode
        /\ (reads' > 0 /\ out' = EndOfInputOutput(reads')) =>
            /\ pc' = "menu"
            /\ exitCode' = -1
            /\ invocations' = 0
      ]_vars

\* every read of the session met the end of the input, and the loop is at
\* its menu again after as many unexpected-error reports
C18_Witness ==
    /\ reads = MaxReads
    /\ out = EndOfInputOutput(MaxReads)
    /\ pc = "menu"
    /\ exitCode = -1

----------------------------------------------------------------------------
(* The order of the credential check and the construction (under SpecCfg) *)

\* the environment for which get_aws_credentials raises
CredentialsMissing ==
    AbsentOrEmpty("AWS_ACCESS_KEY_ID") \/ AbsentOrEmpty("AWS_SECRET_ACCESS_KEY")

\* create_ec2_client has run
FactoryDone == pc # "start"

\* C19: in create_ec2_client the credential check precedes any SDK call:
\* whenever get_aws_credentials fails, the client constructor of the SDK is
\* never invoked, whatever it would have done, and the one "Configuration
\* error" line is the only output before the exit with code 1.
C19_NoConstructionWithoutCredentials ==
    (FactoryDone /\ CredentialsMissing) =>
        /\ sdkCalls = <<>>
        /\ credCalls = 1
        /\ ec2_client = <<>>
        /\ Len(out) = 1
        /\ out[1].text = "Configuration error: {exc}"
        /\ Len(out[1].args) = 1
        /\ exc = Exc("SystemExit", 1)
        /\ pc = "startup_raised"

\* the factory gave up on an environment that has the access key and lacks
\* the secret key, without a construction
C19_Witness ==
    /\ pc = "startup_raised"
    /\ "AWS_ACCESS_KEY_ID" \in DOMAIN environ
    /\ environ["AWS_ACCESS_KEY_ID"] = "B"
    /\ "AWS_SECRET_ACCESS_KEY" \notin DOMAIN environ
    /\ sdkCalls = <<>>
    /\ out[1].text = "Configuration error: {exc}"
    /\ exc = Exc("SystemExit", 1)

----------------------------------------------------------------------------
(* The state typed at the filter-by-state prompt *)

\* C20: in handle_filter_by_state a state that is empty once its whitespace
\* is stripped issues no remote call: the error line is printed and the
\* handler returns without calling list_instances; for any other input
\* list_instances is called with the input stripped and lower-cased as its
\* filter.
C20_FilterIsNormalizedInput ==
    [][ (pc = "filter_state" /\ LineRead) =>
          IF Blank(lastInput')
          THEN /\ pc' = "menu"
               /\ NewLines = << Msg("Error: State cannot be empty.", <<>>) >>
               /\ calls' = <<>>
               /\ state_filter' = <<>>
               /\ handler' = "handle_filter_by_state"
               /\ invocations' = invocations
          ELSE /\ pc' = "list_call"
               /\ handler' = "list_instances"
               /\ invocations' = invocations + 1
               /\ Len(state_filter') = 1
               /\ IsStateOf(lastInput', state_filter'[1])
               /\ calls' = <<>>
      ]_vars

\* " Running" was typed and list_instances runs with the filter running;
\* before it, a line of whitespace had been turned away
C20_Witness ==
    /\ handler = "list_instances"
    /\ lastInput = <<" ", "R", "u", "n", "n", "i", "n", "g">>
    /\ state_filter = << <<"r", "u", "n", "n", "i", "n", "g">> >>
    /\ Printed(Msg("  - running", <<>>))
    /\ \E i \in DOMAIN out : out[i] = Msg("Error: State cannot be empty.", <<>>)
    /\ calls # <<>>

====
